---- MODULE Spec2Model ----
(***************************************************************************)
(* LeitmotifDataset (dataset.py): construction of the per-recording        *)
(* ground-truth tensors, the positive and negative sample lists, and the   *)
(* accessors __getitem__, get_subset_idxs and query_motif.                 *)
(*                                                                         *)
(* Times are held in ticks of 1/TicksPerSec second.  TicksPerSec is a      *)
(* power of two, so every product  sec * 22050 / 512  of the source is an  *)
(* exact binary fraction and Python's round() (round half to even) is      *)
(* modelled exactly by integer arithmetic.                                 *)
(*                                                                         *)
(* A row of a ground-truth tensor holds only 0 and 1; it is stored as the  *)
(* set of its columns that hold 1.                                         *)
(***************************************************************************)
EXTENDS Integers, Sequences, FiniteSets, TLC

VARIABLES files, cqt, instances_gt, samples, none_samples,
          pc, cur, occupied, none_intervals, none_samples_act, ret

vars == <<files, cqt, instances_gt, samples, none_samples,
          pc, cur, occupied, none_intervals, none_samples_act, ret>>

----------------------------------------------------------------------------
(* Program constants *)

SampleRate == 22050
HopLength == 512
NumClasses == 21
duration_sec == 15
duration_samples == 646

(* Resolution of the time axis of the model: ticks per second. *)
TicksPerSec == 2 ^ 5

(* Grid of the sampled start offsets: the number of grid steps in one     *)
(* window length.  The sampler's outcomes are every grid point of the      *)
(* feasible range of a free region, counted from the region's start, and   *)
(* the last feasible start.                                                *)
SampleGrid == 4

PyNone == "None"

Min(a, b) == IF a < b THEN a ELSE b
Max(a, b) == IF a > b THEN a ELSE b

----------------------------------------------------------------------------
(* Python primitives *)

(* round(num / den) for num >= 0, den > 0: round half to even. *)
PyRound(num, den) ==
    LET q == num \div den
        r == num % den
    IN  IF 2 * r < den THEN q
        ELSE IF 2 * r > den THEN q + 1
        ELSE IF q % 2 = 0 THEN q ELSE q + 1

(* int(round(t * 22050 / 512)) for a time of t ticks. *)
SecToFrame(t) == PyRound(t * SampleRate, HopLength * TicksPerSec)

(* Variant: the seconds rounded up instead of down. *)
FrameToSecCeil(f) == (f * HopLength + SampleRate - 1) \div SampleRate

(* frames * 512 // 22050: whole seconds. *)
FrameToSec(f) == (f * HopLength) \div SampleRate

(* Bounds of the slice [start:end] of a dimension of n rows. *)
SliceBound(i, n) == IF i < 0 THEN Max(i + n, 0) ELSE Min(i, n)
SliceLo(start, end, n) == SliceBound(start, n)
SliceHi(start, end, n) == Max(SliceBound(start, n), SliceBound(end, n))

(* list[i]: position (1-based) of the element, or 0 for IndexError. *)
PyIndex(len, i) ==
    IF i >= 0 /\ i < len THEN i + 1
    ELSE IF i < 0 /\ i >= -len THEN len + i + 1
    ELSE 0

(* Stable insertion of x into a sequence sorted by element 'k'. *)
RECURSIVE InsertByKey(_, _, _)
InsertByKey(s, x, k) ==
    IF s = <<>> THEN <<x>>
    ELSE IF x[k] < s[Len(s)][k]
         THEN Append(InsertByKey(SubSeq(s, 1, Len(s) - 1), x, k), s[Len(s)])
         ELSE Append(s, x)

(* sorted(s, key=lambda x: x[k]) *)
RECURSIVE SortByKey(_, _)
SortByKey(s, k) ==
    IF s = <<>> THEN <<>>
    ELSE InsertByKey(SortByKey(SubSeq(s, 1, Len(s) - 1), k), s[Len(s)], k)

----------------------------------------------------------------------------
(* data_utils *)

Motifs == {"Nibelungen", "Ring", "Schwert"}

motif2idx == [m \in Motifs |->
                 CASE m = "Nibelungen" -> 0
                   [] m = "Ring" -> 7
                   [] m = "Schwert" -> 19]

(* Free regions of [0, total] left by the occupied intervals <<label,     *)
(* start, end>>, sorted by start.                                          *)
RECURSIVE Sweep(_, _, _)
Sweep(occ, cursor, total) ==
    IF occ = <<>>
    THEN IF cursor < total THEN << <<cursor, total>> >> ELSE <<>>
    ELSE LET s == occ[1][2]
             e == occ[1][3]
             gap == IF cursor < Min(s, total)
                    THEN << <<cursor, Min(s, total)>> >> ELSE <<>>
         IN  gap \o Sweep(Tail(occ), Max(cursor, e), total)

(* Variant: the intervals sampled so far (no label) are not counted as    *)
(* occupied.                                                               *)
generate_from_labelled(occ, total) ==
    Sweep(SortByKey(SelectSeq(occ, LAMBDA o : o[1] # PyNone), 2), 0, total)

generate_non_overlapping_intervals(occ, total) ==
    Sweep(SortByKey(occ, 2), 0, total)

(* The outcomes of sample_non_overlapping_interval: {} stands for None.   *)
(* A region at least 'duration' long is chosen, then a start anywhere in   *)
(* its feasible range [lo, hi]: at its start, inside it (which splits the  *)
(* region in two), or at its end.                                          *)
sample_non_overlapping_interval(intervals, duration) ==
    UNION { LET lo == intervals[i][1]
                hi == intervals[i][2] - duration
                step == duration \div SampleGrid
            IN  IF hi < lo THEN {}
                ELSE { <<s, s + duration>> :
                         s \in { lo + j * step : j \in 0..((hi - lo) \div step) }
                               \cup {hi} }
          : i \in 1..Len(intervals) }

(* One window of 'duration' per instance, starting at the instance's      *)
(* start, clamped to the recording.                                        *)
sample_instance_intervals(instances, duration, total) ==
    [i \in 1..Len(instances) |->
        LET ws == Max(0, Min(instances[i][2], total - duration))
        IN  <<instances[i][1], ws, ws + duration>>]

----------------------------------------------------------------------------
(* LeitmotifDataset.__init__ *)

(* total_duration = shape[0] * 512 // 22050, whole seconds, in ticks *)
TotalDuration(n) == ((n * HopLength) \div SampleRate) * TicksPerSec

(* duration_sec in ticks *)
DurationTicks == duration_sec * TicksPerSec

(* Variant: the end frame of the slice included. *)
SetSliceInclusive(gt, n, start_idx, end_idx, col) ==
    [f \in 0..(n - 1) |->
        IF SliceLo(start_idx, end_idx, n) <= f /\ f <= SliceHi(start_idx, end_idx, n)
        THEN gt[f] \cup {col} ELSE gt[f]]

(* gt[start_idx:end_idx, motif_idx] = 1 *)
SetSlice(gt, n, start_idx, end_idx, col) ==
    [f \in 0..(n - 1) |->
        IF SliceLo(start_idx, end_idx, n) <= f /\ f < SliceHi(start_idx, end_idx, n)
        THEN gt[f] \cup {col} ELSE gt[f]]

RECURSIVE MarkInstances(_, _, _)
MarkInstances(gt, n, instances) ==
    IF instances = <<>> THEN gt
    ELSE LET instance == instances[1]
         IN  MarkInstances(
                 SetSlice(gt, n, SecToFrame(instance[2]), SecToFrame(instance[3]),
                          motif2idx[instance[1]]),
                 n, Tail(instances))

(* gt[:, :-1].max(dim=1).values, for one row *)
RowMax(row) == IF row \cap (0..(NumClasses - 2)) # {} THEN 1 ELSE 0

(* Variant: the maximum taken over [:, :-2], missing the last motif. *)
AddNoneClassShort(gt, n) ==
    [f \in 0..(n - 1) |->
        IF gt[f] \cap (0..(NumClasses - 3)) = {}
        THEN gt[f] \cup {NumClasses - 1}
        ELSE gt[f] \ {NumClasses - 1}]

(* gt[:, -1] = 1 - gt[:, :-1].max(dim=1).values *)
AddNoneClass(gt, n) ==
    [f \in 0..(n - 1) |->
        IF 1 - RowMax(gt[f]) = 1
        THEN gt[f] \cup {NumClasses - 1}
        ELSE gt[f] \ {NumClasses - 1}]

BuildGT(n, instances) ==
    AddNoneClass(MarkInstances([f \in 0..(n - 1) |-> {}], n, instances), n)

(* (version, act, motif, start_frame, end_frame) *)
PositiveSample(version, act, x) ==
    <<version, act, x[1], SecToFrame(x[2]), SecToFrame(x[2]) + duration_samples>>

(* (version, act, start_frame, end_frame) *)
NegativeSample(version, act, x) ==
    <<version, act, SecToFrame(x[1]), SecToFrame(x[1]) + duration_samples>>

(* Variant: the sampled interval is not recorded as occupied. *)
OccupiedUnchanged(occ, samp) == occ

(* occupied.append((None, samp[0], samp[1])) *)
OccupiedAppend(occ, samp) == Append(occ, <<PyNone, samp[1], samp[2]>>)

----------------------------------------------------------------------------
(* Inputs: the recordings found on disk (pickled CQT + annotation table), *)
(* in the sorted order of their file names.                               *)

RecordingIds == << <<"Bo", "A">>, <<"Ka", "B">> >>

Versions == { RecordingIds[i][1] : i \in 1..Len(RecordingIds) }
Acts == { RecordingIds[i][2] : i \in 1..Len(RecordingIds) }

(* [num_frames, instances]; an instance is <<motif, start, end>> in ticks. *)
Recordings ==
    { (* two annotations exactly duration_sec apart *)
      [num_frames |-> 1050,
       instances |-> << <<"Nibelungen", 195, 227>>, <<"Ring", 707, 739>> >>],
      (* shorter than one window; the annotation runs past the last frame *)
      [num_frames |-> 500,
       instances |-> << <<"Schwert", 320, 416>> >>],
      (* no annotation *)
      [num_frames |-> 1400,
       instances |-> <<>>],
      (* unsorted, overlapping annotations of the same and of other motifs *)
      [num_frames |-> 1000,
       instances |-> << <<"Ring", 96, 160>>, <<"Nibelungen", 64, 128>>,
                        <<"Ring", 150, 170>> >>] }

Key(i) == RecordingIds[i]

Init ==
    /\ files \in [1..Len(RecordingIds) -> Recordings]
    /\ cqt = << >>
    /\ instances_gt = << >>
    /\ samples = << >>
    /\ none_samples = << >>
    /\ pc = "load"
    /\ cur = 1
    /\ occupied = << >>
    /\ none_intervals = << >>
    /\ none_samples_act = << >>
    /\ ret = [op |-> "new"]

(* Lines 24-55: load the CQT, build the ground truth, sample the positive *)
(* windows, seed the negative sampling loop.                              *)
LoadRecording ==
    /\ pc = "load"
    /\ LET n == files[cur].num_frames
           instances == files[cur].instances
           version == Key(cur)[1]
           act == Key(cur)[2]
           total_duration == TotalDuration(n)
           samples_act == sample_instance_intervals(instances, DurationTicks,
                                                    total_duration)
       IN  /\ cqt' = (Key(cur) :> n) @@ cqt
           /\ instances_gt' = (Key(cur) :> BuildGT(n, instances)) @@ instances_gt
           /\ samples' = samples \o [i \in 1..Len(samples_act) |->
                                      PositiveSample(version, act, samples_act[i])]
           /\ occupied' = instances
           /\ none_intervals' = generate_non_overlapping_intervals(instances,
                                                                   total_duration)
           /\ none_samples_act' = << >>
    /\ pc' = "negloop"
    /\ UNCHANGED <<files, none_samples, cur, ret>>

(* Lines 58-65, one iteration with samp not None. *)
SampleNone ==
    /\ pc = "negloop"
    /\ \E samp \in sample_non_overlapping_interval(none_intervals, DurationTicks) :
          /\ occupied' = OccupiedAppend(occupied, samp)
          /\ none_intervals' = generate_non_overlapping_intervals(
                                   occupied', TotalDuration(cqt[Key(cur)]))
          /\ none_samples_act' = Append(none_samples_act, samp)
    /\ UNCHANGED <<files, cqt, instances_gt, samples, none_samples, pc, cur, ret>>

(* Lines 60-61 and 66-69: samp is None; sort, convert, extend; next file. *)
Depleted ==
    /\ pc = "negloop"
    /\ sample_non_overlapping_interval(none_intervals, DurationTicks) = {}
    /\ LET sorted == SortByKey(none_samples_act, 1)
       IN  none_samples' = none_samples \o [i \in 1..Len(sorted) |->
                               NegativeSample(Key(cur)[1], Key(cur)[2], sorted[i])]
    /\ cur' = cur + 1
    /\ pc' = IF cur = Len(files) THEN "built" ELSE "load"
    /\ UNCHANGED <<files, cqt, instances_gt, samples, occupied, none_intervals,
                   none_samples_act, ret>>

Construct == LoadRecording \/ SampleNone \/ Depleted

----------------------------------------------------------------------------
(* Accessors of the constructed dataset *)

DatasetLen == Len(samples) + Len(none_samples)

(* self.instances_gt[fn][start:end, :] *)
GtWindow(key, start, end) ==
    LET n == cqt[key]
        lo == SliceLo(start, end, n)
        hi == SliceHi(start, end, n)
    IN  [k \in 1..(hi - lo) |-> instances_gt[key][lo + k - 1]]

(* self.cqt[fn][start:end, :], named by the rows it holds *)
CqtWindow(key, start, end) ==
    <<key, SliceLo(start, end, cqt[key]), SliceHi(start, end, cqt[key])>>

(* Variant: one row too many. *)
ZeroWindowInclusive(start, end) == [k \in 1..(end - start + 1) |-> {}]

(* torch.zeros((end - start, 21)) *)
ZeroWindow(start, end) == [k \in 1..(end - start) |-> {}]

IndexError(idx) == [op |-> "getitem", idx |-> idx, error |-> TRUE]

getitem(idx) ==
    IF idx < Len(samples)
    THEN LET p == PyIndex(Len(samples), idx)
         IN  IF p = 0 THEN IndexError(idx)
             ELSE LET x == samples[p]
                      fn == <<x[1], x[2]>>
                  IN  [op |-> "getitem", idx |-> idx, error |-> FALSE,
                       cqt |-> CqtWindow(fn, x[4], x[5]),
                       gt |-> GtWindow(fn, x[4], x[5])]
    ELSE LET p == PyIndex(Len(none_samples), idx - Len(samples))
         IN  IF p = 0 THEN IndexError(idx)
             ELSE LET x == none_samples[p]
                      fn == <<x[1], x[2]>>
                  IN  [op |-> "getitem", idx |-> idx, error |-> FALSE,
                       cqt |-> CqtWindow(fn, x[3], x[4]),
                       gt |-> ZeroWindow(x[3], x[4])]

GetItem ==
    /\ pc = "built"
    /\ ret.op = "new"
    /\ \E idx \in (-(DatasetLen + 1))..(DatasetLen + 1) : ret' = getitem(idx)
    /\ UNCHANGED <<files, cqt, instances_gt, samples, none_samples, pc, cur,
                   occupied, none_intervals, none_samples_act>>

(* An optional argument: <<>> is None, <<S>> is the collection S. *)
Optional(S) == {<<>>} \cup { <<x>> : x \in SUBSET S }
IsNone(arg) == arg = <<>>

(* The condition of the comprehensions of get_subset_idxs. *)
Keep(x, versions, acts) ==
    /\ (~IsNone(versions) => x[1] \in versions[1])
    /\ (~IsNone(acts) => x[2] \in acts[1])

(* [idx + offset for (idx, x) in enumerate(s) if Keep(x)] *)
RECURSIVE EnumFilter(_, _, _, _)
EnumFilter(s, versions, acts, offset) ==
    IF s = <<>> THEN <<>>
    ELSE LET init == EnumFilter(SubSeq(s, 1, Len(s) - 1), versions, acts, offset)
         IN  IF Keep(s[Len(s)], versions, acts)
             THEN Append(init, Len(s) - 1 + offset) ELSE init

(* Variant: the negatives offset by their own list's length. *)
NoneOffsetOwn == Len(none_samples)

(* idx + len(self.samples) *)
NoneOffset == Len(samples)

get_subset_idxs(versions, acts) ==
    IF IsNone(versions) /\ IsNone(acts)
    THEN [i \in 1..DatasetLen |-> i - 1]
    ELSE EnumFilter(samples, versions, acts, 0)
           \o EnumFilter(none_samples, versions, acts, NoneOffset)

GetSubsetIdxs ==
    /\ pc = "built"
    /\ ret.op = "new"
    /\ \E versions \in Optional(Versions) :
       \E acts \in Optional(Acts) :
          ret' = [op |-> "subset", versions |-> versions, acts |-> acts,
                  value |-> get_subset_idxs(versions, acts)]
    /\ UNCHANGED <<files, cqt, instances_gt, samples, none_samples, pc, cur,
                   occupied, none_intervals, none_samples_act>>

(* The result is [none |-> TRUE] for None, else the list of               *)
(* (idx, version, act, start_sec, end_sec).                                *)
MotifTuple(idx, x) == <<idx, x[1], x[2], FrameToSec(x[4]), FrameToSec(x[5])>>

RECURSIVE MotifSamples(_, _)
MotifSamples(s, motif) ==
    IF s = <<>> THEN <<>>
    ELSE LET init == MotifSamples(SubSeq(s, 1, Len(s) - 1), motif)
         IN  IF s[Len(s)][3] = motif
             THEN Append(init, MotifTuple(Len(s) - 1, s[Len(s)]))
             ELSE init

(* Variant: the empty list is returned as it is. *)
query_motif_list(motif) ==
    [none |-> FALSE, list |-> MotifSamples(samples, motif)]

query_motif(motif) ==
    LET motif_samples == MotifSamples(samples, motif)
    IN  IF Len(motif_samples) > 0
        THEN [none |-> FALSE, list |-> motif_samples]
        ELSE [none |-> TRUE, list |-> <<>>]

QueryLabels == Motifs \cup {"Walhall"}

QueryMotif ==
    /\ pc = "built"
    /\ ret.op = "new"
    /\ \E motif \in QueryLabels :
          ret' = [op |-> "query", motif |-> motif, value |-> query_motif(motif)]
    /\ UNCHANGED <<files, cqt, instances_gt, samples, none_samples, pc, cur,
                   occupied, none_intervals, none_samples_act>>

(* The caller is done with the value an accessor returned. *)
Discard ==
    /\ pc = "built"
    /\ ret.op # "new"
    /\ ret' = [op |-> "new"]
    /\ UNCHANGED <<files, cqt, instances_gt, samples, none_samples, pc, cur,
                   occupied, none_intervals, none_samples_act>>

Next == LoadRecording \/ SampleNone \/ Depleted
          \/ GetItem \/ GetSubsetIdxs \/ QueryMotif \/ Discard

Spec == Init /\ [][Next]_vars

(* The constructor is sequential code: it runs until it returns. *)
FairSpec == Spec /\ WF_vars(Construct)

----------------------------------------------------------------------------
(* Properties *)

Built == pc = "built"

(* The input file of the recording stored under 'key'. *)
FileOf(key) == files[CHOOSE i \in 1..Len(RecordingIds) : RecordingIds[i] = key]

(* Frame range [lo, hi) of an annotated instance. *)
InstLo(inst) == SecToFrame(inst[2])
InstHi(inst) == SecToFrame(inst[3])

Intersects(lo1, hi1, lo2, hi2) == lo1 < hi2 /\ lo2 < hi1

(* The sample with global index i, 0 <= i < DatasetLen. *)
SampleAt(i) == IF i < Len(samples) THEN samples[i + 1]
               ELSE none_samples[i - Len(samples) + 1]

MotifColumns == 0..(NumClasses - 2)
NoneColumn == NumClasses - 1

(* C1: after construction no negative sample's frame range intersects the *)
(* frame range of an annotated instance of the same recording.            *)
C1_NegativesAvoidInstances ==
    Built =>
      \A j \in 1..Len(none_samples) :
        LET x == none_samples[j]
            instances == FileOf(<<x[1], x[2]>>).instances
        IN  \A i \in 1..Len(instances) :
              ~Intersects(x[3], x[4], InstLo(instances[i]), InstHi(instances[i]))

(* C2: in every ground-truth tensor the "none" column of a frame is 1 iff *)
(* every motif column of that frame is 0.                                 *)
C2_NoneIsComplement ==
    \A key \in DOMAIN instances_gt :
      LET gt == instances_gt[key]
      IN  \A f \in DOMAIN gt :
            (NoneColumn \in gt[f]) <=> (gt[f] \cap MotifColumns = {})

C2_Witness ==
    /\ Built
    /\ \E key \in DOMAIN instances_gt :
         /\ \E f \in DOMAIN instances_gt[key] : instances_gt[key][f] = {NoneColumn}
         /\ \E f \in DOMAIN instances_gt[key] :
              Cardinality(instances_gt[key][f] \cap MotifColumns) = 2
    /\ \E key \in DOMAIN instances_gt :
         /\ FileOf(key).instances = <<>>
         /\ \A f \in DOMAIN instances_gt[key] : instances_gt[key][f] = {NoneColumn}

(* C3: __getitem__ of a valid index returns, for a positive sample, the   *)
(* spectral and ground-truth slices of its frame range, and for a         *)
(* negative sample the spectral slice of its frame range with an all-zero *)
(* label window of as many rows.                                          *)
C3_GetItemReturnsWindow ==
    (ret.op = "getitem" /\ ret.idx \in 0..(DatasetLen - 1)) =>
      /\ ~ret.error
      /\ LET x == SampleAt(ret.idx)
             key == <<x[1], x[2]>>
             n == cqt[key]
         IN  IF ret.idx < Len(samples)
             THEN /\ ret.cqt = <<key, Min(x[4], n), Min(x[5], n)>>
                  /\ Len(ret.gt) = ret.cqt[3] - ret.cqt[2]
                  /\ \A k \in 1..Len(ret.gt) :
                       ret.gt[k] = instances_gt[key][ret.cqt[2] + k - 1]
             ELSE /\ ret.cqt = <<key, Min(x[3], n), Min(x[4], n)>>
                  /\ Len(ret.gt) = ret.cqt[3] - ret.cqt[2]
                  /\ \A k \in 1..Len(ret.gt) : ret.gt[k] = {}

C3_Witness ==
    /\ ret.op = "getitem"
    /\ ~ret.error
    /\ ret.idx >= Len(samples)
    /\ Len(samples) > 0
    /\ Len(ret.gt) = duration_samples

(* C4: every pair __getitem__ returns for a valid index has exactly       *)
(* duration_samples spectral rows and duration_samples label rows.        *)
C4_UniformShape ==
    (ret.op = "getitem" /\ ret.idx \in 0..(DatasetLen - 1) /\ ~ret.error) =>
      /\ ret.cqt[3] - ret.cqt[2] = duration_samples
      /\ Len(ret.gt) = duration_samples

(* C5: __getitem__ fails with an index error for every index outside      *)
(* [0, len(samples) + len(none_samples)).                                 *)
C5_OutOfRangeFails ==
    (ret.op = "getitem" /\ ret.idx \notin 0..(DatasetLen - 1)) => ret.error

(* C6: get_subset_idxs returns, in ascending order and without            *)
(* duplicates, exactly the global indices whose sample's version and act  *)
(* pass the filters that are given.                                       *)
C6_SubsetIdxs ==
    ret.op = "subset" =>
      LET v == ret.value
          Match(i) ==
              /\ (~IsNone(ret.versions) => SampleAt(i)[1] \in ret.versions[1])
              /\ (~IsNone(ret.acts) => SampleAt(i)[2] \in ret.acts[1])
      IN  /\ \A k \in 1..(Len(v) - 1) : v[k] < v[k + 1]
          /\ { v[k] : k \in 1..Len(v) } = { i \in 0..(DatasetLen - 1) : Match(i) }

C6_Witness ==
    /\ ret.op = "subset"
    /\ ~IsNone(ret.versions)
    /\ ~IsNone(ret.acts)
    /\ Len(ret.value) > 1
    /\ Len(ret.value) < DatasetLen
    /\ ret.value[1] < Len(samples)
    /\ ret.value[1] > 0
    /\ ret.value[Len(ret.value)] >= Len(samples)

(* C7: query_motif returns one tuple (index, version, act, ...) for each  *)
(* positive sample with the label, in index order, and None when there is *)
(* none.                                                                  *)
C7_QueryMotif ==
    ret.op = "query" =>
      LET hits == { i \in 0..(Len(samples) - 1) : samples[i + 1][3] = ret.motif }
          l == ret.value.list
      IN  IF hits = {} THEN ret.value.none
          ELSE /\ ~ret.value.none
               /\ Len(l) = Cardinality(hits)
               /\ { l[k][1] : k \in 1..Len(l) } = hits
               /\ \A k \in 1..(Len(l) - 1) : l[k][1] < l[k + 1][1]
               /\ \A k \in 1..Len(l) :
                    /\ l[k][2] = samples[l[k][1] + 1][1]
                    /\ l[k][3] = samples[l[k][1] + 1][2]

C7_Witness ==
    /\ ret.op = "query"
    /\ ret.value.none
    /\ Len(samples) > 0
    /\ Len(none_samples) > 0

RECURSIVE TotalFree(_)
TotalFree(intervals) ==
    IF intervals = <<>> THEN 0
    ELSE (intervals[1][2] - intervals[1][1]) + TotalFree(Tail(intervals))

LongEnough(intervals) ==
    \E i \in 1..Len(intervals) : intervals[i][2] - intervals[i][1] >= DurationTicks

(* The open intervals (a1, b1) and (a2, b2) have a point in common. *)
Overlap(a1, b1, a2, b2) == a1 < b2 /\ a2 < b1

(* No window of duration_sec inside [0, total] avoids every occupied      *)
(* interval; stated on the occupied list, not on the free regions.         *)
NoRoom(occ, total) ==
    \A s \in 0..(total - DurationTicks) :
      \E i \in 1..Len(occ) : Overlap(s, s + DurationTicks, occ[i][2], occ[i][3])

(* An iteration of the negative sampling loop that sampled an interval. *)
Sampled == pc = "negloop" /\ pc' = "negloop" /\ none_samples_act' # none_samples_act

(* C8: the negative sampling loop terminates: an iteration that samples   *)
(* appends the interval, which is duration_sec long, inside the recording  *)
(* and clear of every interval occupied so far, to the occupied list and   *)
(* decreases the free length by duration_sec; when the loop stops no       *)
(* window of duration_sec is left clear of the occupied intervals; at most *)
(* total_duration / duration_sec negative samples are produced; the loop   *)
(* is left for every recording and the constructor returns.                *)
C8_LoopTerminates ==
    /\ [][Sampled =>
            LET samp == none_samples_act'[Len(none_samples_act')]
            IN  /\ none_samples_act' = Append(none_samples_act, samp)
                /\ occupied' = Append(occupied, <<PyNone, samp[1], samp[2]>>)
                /\ samp[2] - samp[1] = DurationTicks
                /\ 0 <= samp[1]
                /\ samp[2] <= TotalDuration(cqt[Key(cur)])
                /\ \A i \in 1..Len(occupied) :
                      ~Overlap(samp[1], samp[2], occupied[i][2], occupied[i][3])
                /\ TotalFree(none_intervals') =
                      TotalFree(none_intervals) - DurationTicks]_vars
    /\ [][(pc = "negloop" /\ pc' # "negloop") =>
            NoRoom(occupied, TotalDuration(cqt[Key(cur)]))]_vars
    /\ [](pc = "negloop" =>
            Len(none_samples_act) * DurationTicks <= TotalDuration(cqt[Key(cur)]))
    /\ [](pc = "negloop" => <>(pc # "negloop"))
    /\ <>Built

(* A start inside a free region split it in two: the loop is about to     *)
(* stop after one sample although more than one window length is free.    *)
C8_Witness ==
    /\ pc = "negloop"
    /\ Len(none_samples_act) = 1
    /\ Len(none_intervals) = 2
    /\ ~LongEnough(none_intervals)
    /\ TotalFree(none_intervals) > DurationTicks

(* C9 as stated: the start_sec reported by query_motif converts back to a *)
(* frame at most one frame away from the sample's start_frame.            *)
C9_StartWithinOneFrame ==
    (ret.op = "query" /\ ~ret.value.none) =>
      \A k \in 1..Len(ret.value.list) :
        LET t == ret.value.list[k]
            start_frame == samples[t[1] + 1][4]
            back == SecToFrame(t[4] * TicksPerSec)
        IN  start_frame - back <= 1 /\ back - start_frame <= 1

(* C9 amended: the reported start_sec is in whole seconds; converted back *)
(* to frames it never exceeds start_frame and lies less than one second   *)
(* of frames (at most 43) below it.                                       *)
C9_StartWithinOneSecond ==
    (ret.op = "query" /\ ~ret.value.none) =>
      \A k \in 1..Len(ret.value.list) :
        LET t == ret.value.list[k]
            start_frame == samples[t[1] + 1][4]
            back == SecToFrame(t[4] * TicksPerSec)
        IN  /\ back <= start_frame
            /\ start_frame - back <= SampleRate \div HopLength

C9_Witness ==
    /\ ret.op = "query"
    /\ ~ret.value.none
    /\ \E k \in 1..Len(ret.value.list) :
         LET t == ret.value.list[k]
             start_frame == samples[t[1] + 1][4]
         IN  start_frame - SecToFrame(t[4] * TicksPerSec) = SampleRate \div HopLength

(* C10: entry (f, m) of a ground-truth tensor is 1 iff an annotated       *)
(* instance of the recording with motif m covers frame f; the tensor has  *)
(* num_frames rows, so annotation frames past the end are dropped.        *)
C10_MotifColumns ==
    \A key \in DOMAIN instances_gt :
      LET instances == FileOf(key).instances
      IN  /\ DOMAIN instances_gt[key] = 0..(FileOf(key).num_frames - 1)
          /\ \A f \in DOMAIN instances_gt[key] :
               instances_gt[key][f] \cap MotifColumns =
                 { motif2idx[instances[i][1]] :
                     i \in { j \in 1..Len(instances) :
                               InstLo(instances[j]) <= f /\ f < InstHi(instances[j]) } }

C10_Witness ==
    /\ Built
    /\ \E key \in DOMAIN instances_gt :
         LET instances == FileOf(key).instances
         IN  \E i \in 1..Len(instances) :
               /\ InstHi(instances[i]) > FileOf(key).num_frames
               /\ InstLo(instances[i]) < FileOf(key).num_frames
    /\ \E key \in DOMAIN instances_gt :
         \E f \in DOMAIN instances_gt[key] :
           Cardinality(instances_gt[key][f] \cap MotifColumns) = 2

====
